---- MODULE Spec2Model ----
(***************************************************************************)
(* Model of nga_imagery_intelligence_app.py: the cached warehouse          *)
(* fetchers, the sidebar filter block that derives filtered_df from        *)
(* imagery_df, the AI Intelligence Assistant conversation and the          *)
(* Imagery Viewer; and of analyze_satellite_image of                       *)
(* nga_cv_analysis_function.py.                                            *)
(*                                                                         *)
(* Time is counted in whole seconds.  A capture date is a number of        *)
(* seconds since day 0; a calendar date is a day number.                   *)
(***************************************************************************)
EXTENDS Integers, Sequences, FiniteSets, TLC

VARIABLES
    \* ---- one script run, lines 399-472 ----
    run_pc,             \* position of the script run
    raw_df,             \* table returned by get_imagery_metadata() (line 401)
    imagery_df,         \* imagery_df after the date coercion and dropna
    min_date, max_date, \* bounds handed to the date_input widget
    date_today,         \* what date.today() gave this run, None if not called
    date_range,         \* value of the date_input widget
    sensor_filter,      \* value of the multiselect widget
    quality_threshold,  \* value of the slider widget
    filtered_df,        \* the derived view
    filter_error,       \* TRUE iff st.error("Error filtering data") was shown
    query_result,       \* what execute_sql_query returned for a turn's statement
    presented,          \* what the page shows for that statement
    \* ---- the st.cache_data(ttl=300) fetchers, lines 270-343 and 399-403 ----
    now,                \* the clock, in seconds
    advances,           \* how often the clock was moved
    warehouse,          \* version of the data the warehouse holds
    cache,              \* fetcher -> cache entry (result, fetch timestamp)
    load_pc,            \* index in LoadOrder of the next fetcher call of the run
    last_call,          \* what the latest fetcher call did
    failed,             \* fetcher -> its latest call raised
    cached_df,          \* fetcher -> the table its cache entry holds
    loaded_df,          \* the table this run got from get_imagery_metadata()
    \* ---- the AI Intelligence Assistant page, lines 1341-1695 ----
    conversation_history,     \* st.session_state.conversation_history
    api_conversation_history, \* st.session_state.api_conversation_history
    conversation_id,          \* st.session_state.conversation_id
    current_question,         \* st.session_state.current_question
    stripped_question,        \* user_question.strip() of the latest Analyze press
    conv_state,               \* where the conversation stands
    pending,                  \* the question and request of the call under way
    last_response,            \* what the analyst API answered to it
    shown,                    \* what the results section displays
    requests,                 \* send_snow_api_request calls made for the latest question
    executed,                 \* statements the latest render ran through execute_sql_query
    \* ---- the Imagery Viewer page, lines 345-373 and 544-667 ----
    viewer_pc,          \* position of the page's run
    viewer_df,          \* df of line 570
    selected_idx,       \* the row the selectbox picked
    url_outcome,        \* what the GET_PRESIGNED_URL query did
    presigned_url,      \* what get_s3_presigned_url returned
    url_error,          \* TRUE iff st.error("Error generating presigned URL") was shown
    image_view,         \* what the page shows in the image column
    \* ---- process_cortex_response on its own, lines 1417-1461 ----
    process_pc,         \* position between the call and its processing
    call_result,        \* what call_cortex_analyst returned
    turn_result,        \* what process_cortex_response made of it
    \* ---- analyze_satellite_image, nga_cv_analysis_function.py ----
    analysis_pc,        \* position inside analyze_satellite_image
    cv_model,           \* the model argument
    url_result,         \* url_result of line 10
    predictions,        \* predictions of line 51: the probability of each class
    raised_at,          \* the step that raised an exception, "none" if none did
    analysis_return     \* the pair the function returned

filterVars == <<run_pc, raw_df, imagery_df, min_date, max_date, date_today,
                date_range, sensor_filter, quality_threshold, filtered_df,
                filter_error, query_result, presented>>

cacheVars == <<now, advances, warehouse, cache, load_pc, last_call, failed,
               cached_df, loaded_df>>

chatVars == <<conversation_history, api_conversation_history, conversation_id,
              current_question, stripped_question, conv_state, pending,
              last_response, shown, requests, executed>>

viewerVars == <<viewer_pc, viewer_df, selected_idx, url_outcome, presigned_url,
                url_error, image_view>>

processVars == <<process_pc, call_result, turn_result>>

analysisVars == <<analysis_pc, cv_model, url_result, predictions, raised_at,
                  analysis_return>>

vars == <<filterVars, cacheVars, chatVars, viewerVars, processVars,
          analysisVars>>

\* what each part of the script leaves alone
outsideFilter == <<cacheVars, chatVars, viewerVars, processVars, analysisVars>>
outsideCache == <<filterVars, chatVars, viewerVars, processVars, analysisVars>>
outsideChat == <<filterVars, cacheVars, viewerVars, processVars, analysisVars>>
outsideViewer == <<filterVars, cacheVars, chatVars, processVars, analysisVars>>
outsideProcess == <<filterVars, cacheVars, chatVars, viewerVars, analysisVars>>
outsideAnalysis == <<filterVars, cacheVars, chatVars, viewerVars, processVars>>

-----------------------------------------------------------------------------
(* Bounds of the model *)

\* longest table the warehouse returns
MaxRows == 3
\* seconds in a day (86400 in pandas), scaled down
SecondsPerDay == 2
\* how often the clock moves
MaxAdvances == 3
\* how often the warehouse data changes
MaxVersion == 1
\* turns a conversation holds before it is cleared
MaxTurns == 2
\* how often Clear Chat is pressed
MaxClears == 1
\* turns of a session long enough to outgrow the replay window
MaxReplayTurns == 6
\* most rows the Imagery Viewer query and the presigned-URL query return
MaxViewerRows == 2
\* most content blocks in one analyst message
MaxBlocks == 4
\* most classes the vision model tells apart
MaxClasses == 6

-----------------------------------------------------------------------------
(* Values of the imagery table *)

\* Python's None as an element of date_range
None == -3
\* pandas' missing timestamp, what errors='coerce' yields for an invalid date
NaT == -1
\* a capture date the warehouse delivered that does not parse
InvalidDate == -2
\* a NULL score: a float NaN
NaN == -1
\* a score the warehouse delivered as text: comparing it with a float raises
NonNumeric == -2

\* pd.Timestamp(d) of a calendar date d: midnight of that day
Timestamp(d) == d * SecondsPerDay

\* Timestamp.date()
DateOf(t) == t \div SecondsPerDay

\* capture dates the warehouse returns: midnight of day 0, the last second of
\* day 0 and midnight of day 1
ValidDates == {Timestamp(0), Timestamp(1) - 1, Timestamp(1)}
Categories == {"EO", "SAR"}

\* high-scored rows of every date and category, low-scored rows of either
\* category, and four rows that carry a special value: an invalid date, the
\* score 82, a NULL score and a score that is text
RowValues ==
    {[CAPTURE_DATE |-> d, SENSOR_CATEGORY |-> c, COMBINED_QUALITY_SCORE |-> 95] :
        d \in ValidDates, c \in Categories}
    \cup
    {[CAPTURE_DATE |-> Timestamp(1) - 1, SENSOR_CATEGORY |-> c,
      COMBINED_QUALITY_SCORE |-> 61] : c \in Categories}
    \cup
    {[CAPTURE_DATE |-> InvalidDate, SENSOR_CATEGORY |-> "EO",
      COMBINED_QUALITY_SCORE |-> 95]}
    \cup
    {[CAPTURE_DATE |-> Timestamp(1) - 1, SENSOR_CATEGORY |-> "EO",
      COMBINED_QUALITY_SCORE |-> s] : s \in {82, NaN, NonNumeric}}

\* session.sql(query).to_pandas(): an ordered table, image_id the row's rank
Tables ==
    UNION {[1..n -> RowValues] : n \in 0..MaxRows}

WithIds(t) ==
    [i \in 1..Len(t) |->
        [IMAGE_ID |-> i,
         CAPTURE_DATE |-> t[i].CAPTURE_DATE,
         SENSOR_CATEGORY |-> t[i].SENSOR_CATEGORY,
         COMBINED_QUALITY_SCORE |-> t[i].COMBINED_QUALITY_SCORE]]

-----------------------------------------------------------------------------
(* Common filters, lines 405-445 *)

\* pd.to_datetime(value, errors='coerce')
to_datetime(v) == IF v = InvalidDate THEN NaT ELSE v

\* the column is left as the warehouse returned it
CoerceDates_Skipped(df) == df

\* line 409
CoerceDates(df) ==
    [i \in 1..Len(df) |-> [df[i] EXCEPT !.CAPTURE_DATE = to_datetime(@)]]

\* the result of dropna is not assigned back: the NaT rows stay
dropna_Kept(df) == df

\* DataFrame.dropna(subset=['CAPTURE_DATE'])
dropna(df) == SelectSeq(df, LAMBDA r : r.CAPTURE_DATE # NaT)

\* lines 407-412: the table the rest of the run works on
CommonFilters(df) ==
    IF Len(df) > 0 THEN dropna(CoerceDates(df)) ELSE df

SetMin(S) == CHOOSE x \in S : \A y \in S : x <= y
SetMax(S) == CHOOSE x \in S : \A y \in S : x >= y

CaptureDates(df) == {df[i].CAPTURE_DATE : i \in 1..Len(df)}

\* imagery_df['SENSOR_CATEGORY'].unique()
SensorOptions(df) == {df[i].SENSOR_CATEGORY : i \in 1..Len(df)}

\* lines 414-424
MinDate(df, today) ==
    IF Len(df) > 0 THEN DateOf(SetMin(CaptureDates(df))) ELSE today
MaxDate(df, today) ==
    IF Len(df) > 0 THEN DateOf(SetMax(CaptureDates(df))) ELSE today

\* what st.date_input can hand back: a tuple of 0, 1 or 2 dates inside
\* [min_value, max_value]; the code also guards against a value that is no
\* tuple and against None elements
DateRanges(lo, hi) ==
    LET D == lo..hi
        E == D \cup {None}
    IN  {[is_tuple |-> TRUE, value |-> <<>>]}
        \cup {[is_tuple |-> TRUE, value |-> <<d>>] : d \in D}
        \cup {[is_tuple |-> TRUE, value |-> <<a, b>>] : a \in E, b \in E}
        \cup {[is_tuple |-> FALSE, value |-> <<lo, hi>>]}

\* slider positions used: 0.0 .. 100.0 in steps of 5.0
QualityThresholds == {80, 95}

-----------------------------------------------------------------------------
(* Filter data based on selections, lines 447-472 *)

\* line 450
ValidDateRange(dr) ==
    /\ dr.is_tuple
    /\ Len(dr.value) >= 2
    /\ dr.value[1] # None
    /\ dr.value[2] # None

\* the start bound taken one second after midnight of the start date
start_date_AfterMidnight(dr) == Timestamp(dr.value[1]) + 1

\* line 452
start_date(dr) == Timestamp(dr.value[1])
\* the end bound left at midnight of the end date
end_date_Midnight(dr) == Timestamp(dr.value[2])

\* line 453: Timestamp + Timedelta(days=1) - Timedelta(seconds=1)
end_date(dr) == Timestamp(dr.value[2]) + SecondsPerDay - 1

\* Series >= float on an object column: a str element raises TypeError
ComparisonRaises(df) ==
    \E i \in 1..Len(df) : df[i].COMBINED_QUALITY_SCORE = NonNumeric

\* element of (imagery_df['COMBINED_QUALITY_SCORE'] >= quality_threshold):
\* NaN compares False
ScoreAtLeast(s, thr) == s # NaN /\ s # NonNumeric /\ s >= thr

\* the isin(sensor_filter) conjunct left out
RangeMask_NoCategory(r, dr, sf, thr) ==
    /\ r.CAPTURE_DATE >= Timestamp(dr.value[1])
    /\ r.CAPTURE_DATE <= Timestamp(dr.value[2]) + SecondsPerDay - 1
    /\ r.COMBINED_QUALITY_SCORE # NaN
    /\ r.COMBINED_QUALITY_SCORE # NonNumeric
    /\ r.COMBINED_QUALITY_SCORE >= thr

\* lines 456-461
RangeMask(r, dr, sf, thr) ==
    /\ r.CAPTURE_DATE >= start_date(dr)
    /\ r.CAPTURE_DATE <= end_date(dr)
    /\ r.SENSOR_CATEGORY \in sf
    /\ ScoreAtLeast(r.COMBINED_QUALITY_SCORE, thr)

\* the quality conjunct left out of the branch without dates
NoRangeMask_NoQuality(r, sf, thr) == r.SENSOR_CATEGORY \in sf

\* lines 464-467
NoRangeMask(r, sf, thr) ==
    /\ r.SENSOR_CATEGORY \in sf
    /\ ScoreAtLeast(r.COMBINED_QUALITY_SCORE, thr)

\* the except branch shows the error and leaves an empty view
FilterBlock_EmptyOnError(df, dr, sf, thr) ==
    IF ComparisonRaises(df)
    THEN <<>>
    ELSE IF ValidDateRange(dr)
         THEN SelectSeq(df, LAMBDA r : RangeMask(r, dr, sf, thr))
         ELSE SelectSeq(df, LAMBDA r : NoRangeMask(r, sf, thr))

\* lines 448-472
FilterBlock(df, dr, sf, thr) ==
    IF ComparisonRaises(df)
    THEN df
    ELSE IF ValidDateRange(dr)
         THEN SelectSeq(df, LAMBDA r : RangeMask(r, dr, sf, thr))
         ELSE SelectSeq(df, LAMBDA r : NoRangeMask(r, sf, thr))

-----------------------------------------------------------------------------
(* Display and execute SQL, lines 1463-1470 and 1661-1693 *)

\* what session.sql(sql_query).to_pandas() does with an analyst statement: it
\* raises, or returns no row, or returns rows
SqlOutcomes ==
    {[raised |-> TRUE, rows |-> <<>>], [raised |-> FALSE, rows |-> <<>>],
     [raised |-> FALSE,
      rows |-> WithIds(<<[CAPTURE_DATE |-> Timestamp(0), SENSOR_CATEGORY |-> "EO",
                          COMBINED_QUALITY_SCORE |-> 95],
                         [CAPTURE_DATE |-> Timestamp(1) - 1, SENSOR_CATEGORY |-> "SAR",
                          COMBINED_QUALITY_SCORE |-> 61]>>)]}

NoQuery == [state |-> "unset", rows |-> <<>>]
NothingPresented == [kind |-> "nothing", rows |-> <<>>]

\* lines 1463-1470: the table, or None after st.error
execute_sql_query(outcome) ==
    IF outcome.raised
    THEN [state |-> "None", rows |-> <<>>]
    ELSE [state |-> "DataFrame", rows |-> outcome.rows]

\* only the first returned row is shown
PresentQueryResult_FirstRow(qr) ==
    IF qr.state = "DataFrame" /\ qr.rows # <<>>
    THEN [kind |-> "dataframe", rows |-> <<qr.rows[1]>>]
    ELSE [kind |-> "warning", rows |-> <<>>]

\* lines 1670-1693: st.dataframe(query_result), or the warning
PresentQueryResult(qr) ==
    IF qr.state = "DataFrame" /\ qr.rows # <<>>
    THEN [kind |-> "dataframe", rows |-> qr.rows]
    ELSE [kind |-> "warning", rows |-> <<>>]

-----------------------------------------------------------------------------
(* The script run *)

FilterInit ==
    /\ run_pc = "start"
    /\ raw_df = <<>>
    /\ imagery_df = <<>>
    /\ min_date = 0
    /\ max_date = 0
    /\ date_today = None
    /\ date_range = [is_tuple |-> TRUE, value |-> <<0, 0>>]
    /\ sensor_filter = {}
    /\ quality_threshold = 80
    /\ filtered_df = <<>>
    /\ filter_error = FALSE
    /\ query_result = NoQuery
    /\ presented = NothingPresented

\* lines 399-424: load the table, coerce the dates, drop the invalid rows
LoadData ==
    /\ run_pc = "start"
    /\ \E t \in Tables, d \in 0..1 :
        LET df == CommonFilters(WithIds(t)) IN
        /\ raw_df' = WithIds(t)
        /\ imagery_df' = df
        /\ min_date' = MinDate(df, d)
        /\ max_date' = MaxDate(df, d)
        /\ date_today' = IF Len(df) > 0 THEN None ELSE d
    /\ run_pc' = "filters"
    /\ UNCHANGED <<date_range, sensor_filter, quality_threshold, filtered_df,
                   filter_error, query_result, presented>>
    /\ UNCHANGED outsideFilter

\* lines 426-472: read the widgets and derive filtered_df
FilterData ==
    /\ run_pc = "filters"
    /\ \E dr \in DateRanges(min_date, max_date),
          sf \in SUBSET SensorOptions(imagery_df),
          thr \in QualityThresholds :
        /\ date_range' = dr
        /\ sensor_filter' = sf
        /\ quality_threshold' = thr
        /\ filtered_df' = FilterBlock(imagery_df, dr, sf, thr)
        /\ filter_error' = ComparisonRaises(imagery_df)
    /\ run_pc' = "filtered"
    /\ UNCHANGED <<raw_df, imagery_df, min_date, max_date, date_today,
                   query_result, presented>>
    /\ UNCHANGED outsideFilter

\* lines 1661-1693 on the assistant page: the statement of a turn is run and
\* its result shown; with that the script ends: its tables are gone, the
\* widgets keep their values and the page keeps what it shows
ShowQueryResult ==
    /\ run_pc = "filtered"
    /\ \E outcome \in SqlOutcomes :
        /\ query_result' = execute_sql_query(outcome)
        /\ presented' = PresentQueryResult(execute_sql_query(outcome))
    /\ run_pc' = "shown"
    /\ raw_df' = <<>>
    /\ imagery_df' = <<>>
    /\ filtered_df' = <<>>
    /\ UNCHANGED <<min_date, max_date, date_today, date_range, sensor_filter,
                   quality_threshold, filter_error>>
    /\ UNCHANGED outsideFilter

\* the script ends; the next interaction runs it again from the top, its
\* variables unset
Rerun ==
    /\ run_pc \in {"filtered", "shown"}
    /\ run_pc' = "start"
    /\ raw_df' = <<>>
    /\ imagery_df' = <<>>
    /\ min_date' = 0
    /\ max_date' = 0
    /\ date_today' = None
    /\ date_range' = [is_tuple |-> TRUE, value |-> <<0, 0>>]
    /\ sensor_filter' = {}
    /\ quality_threshold' = 80
    /\ filtered_df' = <<>>
    /\ filter_error' = FALSE
    /\ query_result' = NoQuery
    /\ presented' = NothingPresented
    /\ UNCHANGED outsideFilter

-----------------------------------------------------------------------------
(* The cached fetchers, lines 270-343, called at lines 399-403 *)

\* @st.cache_data(ttl=300)
TTL == 300

\* lines 401-403: the order in which a run calls the fetchers; none takes
\* an argument, so the fetcher is the query identity
LoadOrder == <<"get_imagery_metadata", "get_spatial_metrics",
               "get_operational_summary">>
Fetchers == {LoadOrder[i] : i \in 1..Len(LoadOrder)}

NoEntry == [stored |-> FALSE, result |-> 0, ts |-> 0]
NoResult == -1

\* an entry of age ttl still counts as fresh
IsFresh_Inclusive(e, t) == e.stored /\ t - e.ts <= TTL

\* nothing is ever served from the cache
IsFresh_Never(e, t) == FALSE

\* st.cache_data: an entry is served while its age is below ttl
IsFresh(e, t) == e.stored /\ t - e.ts < TTL

\* the failure is cached as if it were a result
CacheAfterRaise_Stored(c, f, t) ==
    [c EXCEPT ![f] = [stored |-> TRUE, result |-> NoResult, ts |-> t]]

\* the wrapped function raised: st.cache_data writes nothing
CacheAfterRaise(c, f, t) == c

\* the wrapped function returned: the result is stored with the time
CacheAfterFetch(c, f, r, t) ==
    [c EXCEPT ![f] = [stored |-> TRUE, result |-> r, ts |-> t]]

\* session.sql(query).to_pandas(): the data the warehouse holds now
FetchResult == warehouse

\* the imagery table the warehouse holds at version v: the first capture
\* date does not parse
TableOf(v) ==
    WithIds(<<[CAPTURE_DATE |-> InvalidDate, SENSOR_CATEGORY |-> "EO",
               COMBINED_QUALITY_SCORE |-> 95],
              [CAPTURE_DATE |-> Timestamp(v), SENSOR_CATEGORY |-> "SAR",
               COMBINED_QUALITY_SCORE |-> 82]>>)

NotLoaded == [df |-> <<>>, hit |-> FALSE]

\* the caller is handed the stored object itself, so what the page writes
\* into its table is written into the entry
EntryAfterInPlaceEdit_Shared(stored, edited) == edited

\* st.cache_data hands every caller its own copy of the stored value: the
\* entry stays as stored when the page assigns a column of its table in place
EntryAfterInPlaceEdit(stored, edited) == stored

\* lines 401 and 405-412: what the run holds as imagery_df after the call
Loaded(f, df, hit) ==
    IF f = LoadOrder[1] THEN [df |-> df, hit |-> hit] ELSE loaded_df

CacheInit ==
    /\ now = 0
    /\ advances = 0
    /\ warehouse = 0
    /\ cache = [f \in Fetchers |-> NoEntry]
    /\ load_pc = 1
    /\ last_call = [fn |-> "none", hit |-> FALSE, queries |-> 0,
                    raised |-> FALSE, result |-> NoResult]
    /\ failed = [f \in Fetchers |-> FALSE]
    /\ cached_df = [f \in Fetchers |-> <<>>]
    /\ loaded_df = NotLoaded

\* lines 401-403: f is the fetcher the run calls next
NextFetcher(f) ==
    /\ load_pc \in 1..Len(LoadOrder)
    /\ LoadOrder[load_pc] = f

\* a cache hit: the stored result is returned, the warehouse is not asked
CallHit(f) ==
    /\ NextFetcher(f)
    /\ IsFresh(cache[f], now)
    /\ last_call' = [fn |-> f, hit |-> TRUE, queries |-> 0, raised |-> FALSE,
                     result |-> cache[f].result]
    /\ load_pc' = load_pc + 1
    /\ failed' = [failed EXCEPT ![f] = FALSE]
    /\ loaded_df' = Loaded(f, cached_df[f], TRUE)
    /\ UNCHANGED <<cache, cached_df, now, advances, warehouse>>
    /\ UNCHANGED outsideCache

\* a cache miss whose query succeeds
CallMiss(f) ==
    /\ NextFetcher(f)
    /\ ~IsFresh(cache[f], now)
    /\ cache' = CacheAfterFetch(cache, f, FetchResult, now)
    /\ last_call' = [fn |-> f, hit |-> FALSE, queries |-> 1, raised |-> FALSE,
                     result |-> FetchResult]
    /\ load_pc' = load_pc + 1
    /\ failed' = [failed EXCEPT ![f] = FALSE]
    /\ cached_df' = [cached_df EXCEPT ![f] = TableOf(FetchResult)]
    /\ loaded_df' = Loaded(f, TableOf(FetchResult), FALSE)
    /\ UNCHANGED <<now, advances, warehouse>>
    /\ UNCHANGED outsideCache

\* a cache miss whose query raises: nothing catches it at lines 399-403, so
\* the run ends there
CallRaises(f) ==
    /\ NextFetcher(f)
    /\ ~IsFresh(cache[f], now)
    /\ cache' = CacheAfterRaise(cache, f, now)
    /\ last_call' = [fn |-> f, hit |-> FALSE, queries |-> 1, raised |-> TRUE,
                     result |-> NoResult]
    /\ load_pc' = 1
    /\ failed' = [failed EXCEPT ![f] = TRUE]
    /\ loaded_df' = NotLoaded
    /\ UNCHANGED <<cached_df, now, advances, warehouse>>
    /\ UNCHANGED outsideCache

\* lines 405-412: the run coerces CAPTURE_DATE of its imagery_df in place and
\* rebinds imagery_df to the rows dropna keeps
CoerceDatesInPlace ==
    /\ load_pc = Len(LoadOrder) + 1
    /\ load_pc' = load_pc + 1
    /\ loaded_df' = [loaded_df EXCEPT !.df = CommonFilters(@)]
    /\ cached_df' =
          [cached_df EXCEPT ![LoadOrder[1]] =
              IF Len(loaded_df.df) > 0
              THEN EntryAfterInPlaceEdit(@, CoerceDates(loaded_df.df))
              ELSE @]
    /\ UNCHANGED <<now, advances, warehouse, cache, last_call, failed>>
    /\ UNCHANGED outsideCache

\* the run is past the page code and ends; the next interaction starts a new
\* run
EndRun ==
    /\ load_pc = Len(LoadOrder) + 2
    /\ load_pc' = 1
    /\ loaded_df' = NotLoaded
    /\ UNCHANGED <<now, advances, warehouse, cache, last_call, failed,
                   cached_df>>
    /\ UNCHANGED outsideCache

\* time passes: a second, or a second less than the ttl
Advance ==
    /\ advances < MaxAdvances
    /\ \E d \in {1, TTL - 1} : now' = now + d
    /\ advances' = advances + 1
    /\ UNCHANGED <<warehouse, cache, load_pc, last_call, failed, cached_df,
                   loaded_df>>
    /\ UNCHANGED outsideCache

\* the warehouse tables are refreshed
DataChange ==
    /\ warehouse < MaxVersion
    /\ warehouse' = warehouse + 1
    /\ UNCHANGED <<now, advances, cache, load_pc, last_call, failed, cached_df,
                   loaded_df>>
    /\ UNCHANGED outsideCache

-----------------------------------------------------------------------------
(* The AI Intelligence Assistant, lines 1341-1695 *)

\* the key is not in st.session_state
Absent == "<absent>"

\* what the text area can hold when Analyze is pressed
Texts == {"", "  ", "q1", "q2"}

\* blanks are not taken off
strip_Identity(t) == t

\* str.strip()
strip(t) == IF t = "  " THEN "" ELSE t

\* lines 1562-1571
sample_questions == {"q1", "q2"}

\* line 1392: resp["status"] < 400
ErrorStatus == 400

\* line 1638: conversation_history[-5:]
ReplayWindow == 5

\* content blocks of an analyst message; the last one lacks its text
TextBlock == [type |-> "text", text |-> "a1"]
SqlBlock == [type |-> "sql", statement |-> "SELECT 1"]
BrokenBlock == [type |-> "text"]

Contents == {<<>>, <<TextBlock>>, <<TextBlock, SqlBlock>>, <<BrokenBlock>>}

\* json.loads("null"): a body that is valid JSON and no object, so that
\* '"message" in parsed_content' and parsed_content.get raise
JsonNull == [json_null |-> TRUE]

\* what _snowflake.send_snow_api_request can come back with: the runtime is
\* missing, the request raises (timeout, network, content that is no JSON),
\* an error status, a JSON object with or without a message, or JSON that is
\* no object
Responses ==
    {[kind |-> "no_runtime"], [kind |-> "exception"]}
    \cup
    {[kind |-> "http", status |-> 200, body |-> JsonNull]}
    \cup
    {[kind |-> "http", status |-> st, body |-> [code |-> "390142"]] :
        st \in {ErrorStatus, 500}}
    \cup
    {[kind |-> "http", status |-> 200, body |-> [request_id |-> "r1"]]}
    \cup
    {[kind |-> "http", status |-> 200,
      body |-> [message |-> [role |-> "analyst", content |-> c],
                request_id |-> "r1"]] : c \in Contents}
    \cup
    {[kind |-> "http", status |-> ErrorStatus - 1,
      body |-> [message |-> [role |-> "analyst", content |-> <<TextBlock>>]]]}

\* lines 1362-1365
UserMessage(q) ==
    [role |-> "user", content |-> <<[type |-> "text", text |-> q]>>]

\* lines 1355-1365: the messages of the request
RequestMessages(api, q) == Append(api, UserMessage(q))

\* line 1370: the staged semantic model the request names
SemanticModelFile ==
    "@nga_app_stage/semantic_models/nga_intelligence_semantic_model.yaml"

\* lines 1368-1371
request_body(api, q) ==
    [messages |-> RequestMessages(api, q),
     semantic_model_file |-> SemanticModelFile]

\* a failed call is sent a second time
RequestsSent_RetryOnError(resp) ==
    IF resp.kind = "no_runtime" THEN 0
    ELSE IF resp.kind = "exception" THEN 2
    ELSE IF resp.status < ErrorStatus THEN 1 ELSE 2

\* lines 1351-1386: how often one call of call_cortex_analyst invokes
\* send_snow_api_request; the import at line 1352 fails before anything is sent
RequestsSent(resp) ==
    IF resp.kind = "no_runtime" THEN 0 ELSE 1

\* the status is not looked at: whatever came back counts as the answer
CallResult_StatusUnchecked(resp) ==
    IF resp.kind = "no_runtime"
    THEN [error |-> "This feature requires running in Snowflake Streamlit environment"]
    ELSE IF resp.kind = "exception"
    THEN [error |-> "Error calling Cortex Analyst"]
    ELSE resp.body

\* lines 1388-1415: what call_cortex_analyst returns
CallResult(resp) ==
    IF resp.kind = "no_runtime"
    THEN [error |-> "This feature requires running in Snowflake Streamlit environment"]
    ELSE IF resp.kind = "exception" \/ resp.body = JsonNull
    THEN [error |-> "Error calling Cortex Analyst"]
    ELSE IF resp.status < ErrorStatus
    THEN resp.body
    ELSE [error |-> "API Error " \o ToString(resp.status) \o ": Unknown error"]

\* lines 1392-1405: the API history after the call; the user message is
\* appended (line 1398) before the body is looked into (line 1404)
ApiHistoryAfter(api, q, resp) ==
    IF resp.kind = "http" /\ resp.status < ErrorStatus
    THEN LET withUser == Append(api, UserMessage(q))
         IN  IF "message" \in DOMAIN resp.body
             THEN Append(withUser, resp.body.message)
             ELSE withUser
    ELSE api

\* a content block whose handling raises KeyError
BlockRaises(b) ==
    \/ "type" \notin DOMAIN b
    \/ b.type = "text" /\ "text" \notin DOMAIN b
    \/ b.type = "sql" /\ "statement" \notin DOMAIN b
    \/ b.type = "suggestions" /\ "suggestions" \notin DOMAIN b

RECURSIVE JoinLines(_)
\* "\n".join(text_parts)
JoinLines(parts) ==
    IF Len(parts) = 1 THEN parts[1]
    ELSE parts[1] \o "\n" \o JoinLines(Tail(parts))

RECURSIVE Concat(_)
Concat(seqs) == IF seqs = <<>> THEN <<>> ELSE Head(seqs) \o Concat(Tail(seqs))

\* lines 1430-1440
TextParts(content) ==
    LET blocks == SelectSeq(content, LAMBDA b : b.type = "text")
    IN  [i \in 1..Len(blocks) |-> blocks[i].text]

\* the first sql block wins
SqlStatement_First(content) ==
    LET blocks == SelectSeq(content, LAMBDA b : b.type = "sql")
    IN  IF blocks = <<>> THEN "" ELSE blocks[1].statement

\* lines 1437-1438 and 1446-1447: the statement of the last sql block; an
\* empty statement counts as none
SqlStatement(content) ==
    LET blocks == SelectSeq(content, LAMBDA b : b.type = "sql")
    IN  IF blocks = <<>> THEN "" ELSE blocks[Len(blocks)].statement

Suggestions(content) ==
    LET blocks == SelectSeq(content, LAMBDA b : b.type = "suggestions")
    IN  Concat([i \in 1..Len(blocks) |-> blocks[i].suggestions])

\* lines 1417-1461
process_cortex_response(api_response) ==
    IF "error" \in DOMAIN api_response
    THEN api_response
    ELSE IF "message" \notin DOMAIN api_response
    THEN [error |-> "Invalid response format from Cortex Analyst"]
    ELSE LET content == api_response.message.content IN
         IF \E i \in 1..Len(content) : BlockRaises(content[i])
         THEN [error |-> "Error processing Cortex Analyst response"]
         ELSE LET keys ==
                    (IF TextParts(content) # <<>> THEN {"answer"} ELSE {})
                    \cup (IF SqlStatement(content) # "" THEN {"sql"} ELSE {})
                    \cup (IF Suggestions(content) # <<>> THEN {"suggestions"} ELSE {})
                    \cup (IF "request_id" \in DOMAIN api_response
                          THEN {"request_id"} ELSE {})
              IN  [k \in keys |->
                      CASE k = "answer" -> JoinLines(TextParts(content))
                        [] k = "sql" -> SqlStatement(content)
                        [] k = "suggestions" -> Suggestions(content)
                        [] k = "request_id" -> api_response.request_id]

\* a turn is recorded only when the call went well
TurnsAfter_SkipErrors(h, q, result, t) ==
    IF "error" \in DOMAIN result THEN h
    ELSE Append(h, [question |-> q, result |-> result, timestamp |-> t])

\* the newest turn is put first
TurnsAfter_Front(h, q, result, t) ==
    <<[question |-> q, result |-> result, timestamp |-> t]>> \o h

\* lines 1619-1623
TurnsAfter(h, q, result, t) ==
    Append(h, [question |-> q, result |-> result, timestamp |-> t])

\* the error branch is missing: every turn is shown as an answer
RenderTurn_NoErrorBlock(conv) ==
    [question |-> conv.question,
     blocks |-> <<[kind |-> "answer", text |-> "?"]>>]

\* lines 1639-1695: one turn of the results section
RenderTurn(conv) ==
    [question |-> conv.question,
     blocks |->
        IF "error" \in DOMAIN conv.result
        THEN <<[kind |-> "error", text |-> conv.result.error]>>
        ELSE (IF "answer" \in DOMAIN conv.result
              THEN <<[kind |-> "answer", text |-> conv.result.answer]>>
              ELSE <<>>)
             \o
             (IF "sql" \in DOMAIN conv.result
              THEN <<[kind |-> "sql", text |-> conv.result.sql]>>
              ELSE <<>>)]

\* the statement is run for the table and once more for the summary
TurnQueries_Twice(conv) ==
    IF "error" \in DOMAIN conv.result THEN <<>>
    ELSE IF "sql" \in DOMAIN conv.result
         THEN <<conv.result.sql, conv.result.sql>>
         ELSE <<>>

\* lines 1650-1668: the execute_sql_query calls made while one turn is drawn
TurnQueries(conv) ==
    IF "error" \in DOMAIN conv.result THEN <<>>
    ELSE IF "sql" \in DOMAIN conv.result THEN <<conv.result.sql>> ELSE <<>>

\* the window is cut from the wrong end: h[:n]
LastN_Oldest(h, n) == IF Len(h) <= n THEN h ELSE SubSeq(h, 1, n)

\* h[-n:]
LastN(h, n) == IF Len(h) <= n THEN h ELSE SubSeq(h, Len(h) - n + 1, Len(h))

Reversed(h) == [i \in 1..Len(h) |-> h[Len(h) + 1 - i]]

\* lines 1636-1695: the results section
Render(h) ==
    LET window == Reversed(LastN(h, ReplayWindow))
    IN  [i \in 1..Len(window) |-> RenderTurn(window[i])]

\* lines 1636-1668: the execute_sql_query calls of one render, in order
RenderQueries(h) ==
    LET window == Reversed(LastN(h, ReplayWindow))
    IN  Concat([i \in 1..Len(window) |-> TurnQueries(window[i])])

NoPending == [question |-> "", body |-> [messages |-> <<>>]]
NoResponse == [kind |-> "none"]

\* the session after the page was opened, lines 1341-1346
ChatInit ==
    /\ conversation_history = <<>>
    /\ api_conversation_history = <<>>
    /\ conversation_id = 0
    /\ current_question = Absent
    /\ stripped_question = Absent
    /\ conv_state = "IDLE"
    /\ pending = NoPending
    /\ last_response = NoResponse
    /\ shown = <<>>
    /\ requests = 0
    /\ executed = <<>>

\* lines 1584-1588: a sample question is clicked; the run shows the history
SampleClick(q) ==
    /\ conv_state = "IDLE"
    /\ current_question' = q
    /\ shown' = Render(conversation_history)
    /\ executed' = RenderQueries(conversation_history)
    /\ UNCHANGED <<conversation_history, api_conversation_history,
                   conversation_id, stripped_question, conv_state, pending,
                   last_response, requests>>
    /\ UNCHANGED outsideChat

\* Clear Chat that forgets to empty the API history
ClearChat_KeepsApiHistory ==
    /\ conv_state = "IDLE"
    /\ conversation_id < MaxClears
    /\ conversation_history' = <<>>
    /\ conversation_id' = conversation_id + 1
    /\ current_question' = ""
    /\ stripped_question' = Absent
    /\ shown' = Render(<<>>)
    /\ executed' = RenderQueries(<<>>)
    /\ UNCHANGED <<api_conversation_history, conv_state, pending,
                   last_response, requests>>
    /\ UNCHANGED outsideChat

\* lines 1602-1607: Clear Chat, then st.rerun() shows the empty history
ClearChat ==
    /\ conv_state = "IDLE"
    /\ conversation_id < MaxClears
    /\ conversation_history' = <<>>
    /\ api_conversation_history' = <<>>
    /\ conversation_id' = conversation_id + 1
    /\ current_question' = ""
    /\ stripped_question' = Absent
    /\ shown' = Render(<<>>)
    /\ executed' = RenderQueries(<<>>)
    /\ UNCHANGED <<conv_state, pending, last_response, requests>>
    /\ UNCHANGED outsideChat

\* line 1612 false: Analyze pressed on a blank text; the run shows the history
SubmitBlank(text) ==
    /\ conv_state = "IDLE"
    /\ strip(text) = ""
    /\ stripped_question' = strip(text)
    /\ shown' = Render(conversation_history)
    /\ executed' = RenderQueries(conversation_history)
    /\ UNCHANGED <<conversation_history, api_conversation_history,
                   conversation_id, current_question, conv_state, pending,
                   last_response, requests>>
    /\ UNCHANGED outsideChat

\* lines 1612-1386: Analyze pressed on a question; the request is sent
Submit(text) ==
    /\ conv_state = "IDLE"
    /\ strip(text) # ""
    /\ Len(conversation_history) < MaxTurns
    /\ conv_state' = "AWAITING_RESPONSE"
    /\ stripped_question' = strip(text)
    /\ pending' = [question |-> text,
                   body |-> request_body(api_conversation_history, text)]
    /\ requests' = 0
    /\ UNCHANGED <<conversation_history, api_conversation_history,
                   conversation_id, current_question, last_response, shown,
                   executed>>
    /\ UNCHANGED outsideChat

\* lines 1612-1386 again, in a session that goes on past the replay window
SubmitInLongSession(text) ==
    /\ conv_state = "IDLE"
    /\ strip(text) # ""
    /\ Len(conversation_history) < MaxReplayTurns
    /\ conv_state' = "AWAITING_RESPONSE"
    /\ stripped_question' = strip(text)
    /\ pending' = [question |-> text,
                   body |-> request_body(api_conversation_history, text)]
    /\ requests' = 0
    /\ UNCHANGED <<conversation_history, api_conversation_history,
                   conversation_id, current_question, last_response, shown,
                   executed>>
    /\ UNCHANGED outsideChat

\* lines 1388-1415 and 1618-1627: the call returns, the turn is recorded
Respond(resp) ==
    /\ conv_state = "AWAITING_RESPONSE"
    /\ LET processed_result == process_cortex_response(CallResult(resp)) IN
        /\ conversation_history' =
              TurnsAfter(conversation_history, pending.question,
                         processed_result, now)
        /\ conv_state' =
              IF "error" \in DOMAIN processed_result THEN "FAILED" ELSE "ANSWERED"
    /\ api_conversation_history' =
          ApiHistoryAfter(api_conversation_history, pending.question, resp)
    /\ last_response' = resp
    /\ requests' = requests + RequestsSent(resp)
    /\ current_question' = Absent
    /\ UNCHANGED <<conversation_id, stripped_question, pending, shown, executed>>
    /\ UNCHANGED outsideChat

\* lines 1636-1695: the results section is drawn and the run ends
Display ==
    /\ conv_state \in {"ANSWERED", "FAILED"}
    /\ shown' = Render(conversation_history)
    /\ executed' = RenderQueries(conversation_history)
    /\ conv_state' = "IDLE"
    /\ pending' = NoPending
    /\ last_response' = NoResponse
    /\ UNCHANGED <<conversation_history, api_conversation_history,
                   conversation_id, current_question, stripped_question,
                   requests>>
    /\ UNCHANGED outsideChat

-----------------------------------------------------------------------------
(* process_cortex_response over analyst messages of every shape, lines      *)
(* 1417-1461                                                                *)

\* content blocks an analyst message can hold: texts, statements (one of
\* them empty), suggestion lists, a block of a type the code does not know
\* and a text block without its text
ContentBlocks ==
    {TextBlock, [type |-> "text", text |-> "a2"],
     SqlBlock, [type |-> "sql", statement |-> "SELECT 2"],
     [type |-> "sql", statement |-> ""],
     [type |-> "suggestions", suggestions |-> <<"s1">>],
     [type |-> "suggestions", suggestions |-> <<"s2", "s3">>],
     [type |-> "chart"],
     BrokenBlock}

\* the contents of up to n blocks
MessageContents(n) == UNION {[1..k -> ContentBlocks] : k \in 0..n}

\* what call_cortex_analyst hands to process_cortex_response for a message
\* content c: the parsed body with or without request_id
ApiResponses(c) ==
    {[message |-> [role |-> "analyst", content |-> c]],
     [message |-> [role |-> "analyst", content |-> c], request_id |-> "r1"]}

\* what it hands over otherwise: an error descriptor, a body without message
OtherResponses ==
    {[error |-> "Error calling Cortex Analyst"], [request_id |-> "r1"]}

Unset == [unset |-> TRUE]

ProcessInit ==
    /\ process_pc = "idle"
    /\ call_result = Unset
    /\ turn_result = Unset

\* line 1615: call_cortex_analyst returns
CallReturns ==
    /\ process_pc = "idle"
    /\ \/ \E r \in OtherResponses : call_result' = r
       \/ \E c \in MessageContents(MaxBlocks) :
            \E r \in ApiResponses(c) : call_result' = r
    /\ process_pc' = "returned"
    /\ UNCHANGED turn_result
    /\ UNCHANGED outsideProcess

\* line 1618: turn_result = process_cortex_response(result)
ProcessResponse ==
    /\ process_pc = "returned"
    /\ turn_result' = process_cortex_response(call_result)
    /\ process_pc' = "processed"
    /\ UNCHANGED call_result
    /\ UNCHANGED outsideProcess

\* the run ends; the next question starts with fresh locals
ProcessDone ==
    /\ process_pc = "processed"
    /\ process_pc' = "idle"
    /\ call_result' = Unset
    /\ turn_result' = Unset
    /\ UNCHANGED outsideProcess

-----------------------------------------------------------------------------
(* The Imagery Viewer and the presigned URLs, lines 345-373 and 544-667 *)

\* a NULL S3_KEY
NullKey == "<NULL>"
S3Keys == {"img1.tif", "img2.tif", NullKey}

\* df of line 570: the rows with their storage locator
ViewerTables ==
    UNION {[1..n -> [S3_KEY : S3Keys]] : n \in 0..MaxViewerRows}

\* get_s3_presigned_url's result: None, or a URL
NoUrl == [none |-> TRUE]
Url(u) == [none |-> FALSE, value |-> u]

\* what session.sql(query).collect() of line 350 does: it raises, or returns
\* rows whose PRESIGNED_URL column holds a URL
UrlOutcomes ==
    {[raised |-> TRUE, rows |-> <<>>]}
    \cup
    {[raised |-> FALSE, rows |-> r] :
        r \in UNION {[1..n -> {"https://s3/a", "https://s3/b"}] :
                        n \in 0..MaxViewerRows}}

NoOutcome == [raised |-> FALSE, rows |-> <<>>]

\* after a failure the key itself is handed back as the address
get_s3_presigned_url_KeyAsUrl(s3_key, outcome) ==
    IF outcome.raised THEN Url(s3_key)
    ELSE IF Len(outcome.rows) > 0 THEN Url(outcome.rows[1]) ELSE NoUrl

\* lines 345-358
get_s3_presigned_url(s3_key, outcome) ==
    IF outcome.raised THEN NoUrl
    ELSE IF Len(outcome.rows) > 0 THEN Url(outcome.rows[1]) ELSE NoUrl

\* lines 360-373: st.image and the details, the warning, or the error shown
\* when st.image raises
display_image_from_s3(s3_key, outcome, image_ok) ==
    LET url == get_s3_presigned_url(s3_key, outcome) IN
    IF ~url.none
    THEN IF image_ok
         THEN [kind |-> "image", url |-> url.value, s3_key |-> s3_key]
         ELSE [kind |-> "error", s3_key |-> s3_key]
    ELSE [kind |-> "warning", s3_key |-> s3_key]

NoView == [kind |-> "nothing"]

ViewerInit ==
    /\ viewer_pc = "start"
    /\ viewer_df = <<>>
    /\ selected_idx = 0
    /\ url_outcome = NoOutcome
    /\ presigned_url = NoUrl
    /\ url_error = FALSE
    /\ image_view = NoView

\* line 570: the page's query returns
ViewerQuery ==
    /\ viewer_pc = "start"
    /\ \E t \in ViewerTables : viewer_df' = t
    /\ viewer_pc' = "queried"
    /\ UNCHANGED <<selected_idx, url_outcome, presigned_url, url_error,
                   image_view>>
    /\ UNCHANGED outsideViewer

\* line 570: the page's query raises; nothing catches it and the run ends
\* with Streamlit's exception display
ViewerQueryRaises ==
    /\ viewer_pc = "start"
    /\ image_view' = [kind |-> "exception"]
    /\ viewer_pc' = "done"
    /\ UNCHANGED <<viewer_df, selected_idx, url_outcome, presigned_url,
                   url_error>>
    /\ UNCHANGED outsideViewer

\* lines 572-650: the map, then the selectbox picks a row; an empty df shows
\* "No imagery data found" and the run ends
SelectImage ==
    /\ viewer_pc = "queried"
    /\ IF viewer_df = <<>>
       THEN /\ image_view' = [kind |-> "no_data"]
            /\ viewer_pc' = "done"
            /\ UNCHANGED selected_idx
       ELSE /\ \E i \in 1..Len(viewer_df) : selected_idx' = i
            /\ viewer_pc' = "selected"
            /\ UNCHANGED image_view
    /\ UNCHANGED <<viewer_df, url_outcome, presigned_url, url_error>>
    /\ UNCHANGED outsideViewer

\* lines 655-663: the image of the selected row, or the warning that the row
\* has none
DisplayImage ==
    /\ viewer_pc = "selected"
    /\ LET s3_key == viewer_df[selected_idx].S3_KEY IN
       IF s3_key = NullKey
       THEN /\ image_view' = [kind |-> "no_image"]
            /\ UNCHANGED <<url_outcome, presigned_url, url_error>>
       ELSE \E outcome \in UrlOutcomes, image_ok \in BOOLEAN :
            /\ url_outcome' = outcome
            /\ presigned_url' = get_s3_presigned_url(s3_key, outcome)
            /\ url_error' = outcome.raised
            /\ image_view' = display_image_from_s3(s3_key, outcome, image_ok)
    /\ viewer_pc' = "done"
    /\ UNCHANGED <<viewer_df, selected_idx>>
    /\ UNCHANGED outsideViewer

\* the script ends; the next interaction runs the page again
ViewerRerun ==
    /\ viewer_pc = "done"
    /\ viewer_pc' = "start"
    /\ viewer_df' = <<>>
    /\ selected_idx' = 0
    /\ url_outcome' = NoOutcome
    /\ presigned_url' = NoUrl
    /\ url_error' = FALSE
    /\ image_view' = NoView
    /\ UNCHANGED outsideViewer

FilterNext == LoadData \/ FilterData \/ Rerun

CacheNext ==
    \/ \E f \in Fetchers : CallHit(f) \/ CallMiss(f) \/ CallRaises(f)
    \/ CoerceDatesInPlace
    \/ EndRun
    \/ Advance
    \/ DataChange

ChatNext ==
    \/ \E q \in sample_questions : SampleClick(q)
    \/ ClearChat
    \/ \E text \in Texts : SubmitBlank(text) \/ Submit(text)
    \/ \E resp \in Responses : Respond(resp)
    \/ Display

ViewerNext ==
    \/ ViewerQuery
    \/ ViewerQueryRaises
    \/ SelectImage
    \/ DisplayImage
    \/ ViewerRerun

-----------------------------------------------------------------------------
(* analyze_satellite_image, nga_cv_analysis_function.py lines 2-83.  A      *)
(* probability and a confidence are counted in hundredths.                  *)

\* line 56: torch.topk(predictions, 5)
TopCount == 5

\* the models the function is called with: a Hugging Face model with or
\* without config.id2label, or a torchvision model (no config)
CvModels ==
    {[is_huggingface |-> TRUE, id2label |-> TRUE],
     [is_huggingface |-> TRUE, id2label |-> FALSE],
     [is_huggingface |-> FALSE, id2label |-> FALSE]}

\* what the GET_PRESIGNED_URL query returns when it does not raise: no row,
\* a row with a URL, a row whose URL is NULL
UrlResults ==
    {<<>>, <<[URL |-> "https://stage/img"]>>, <<[URL |-> "<NULL>"]>>}

RECURSIVE Orderings(_)
\* the sequences that hold every element of S once
Orderings(S) ==
    IF S = {} THEN {<<>>}
    ELSE UNION {{<<x>> \o s : s \in Orderings(S \ {x})} : x \in S}

\* softmax outputs for one image over n classes: the probabilities 1..n in
\* any order, or all the same
SoftmaxOutputs ==
    UNION {Orderings(1..n) \cup {[i \in 1..n |-> 1]} :
              n \in (TopCount - 1)..MaxClasses}

NoResults == [none |-> TRUE]
NoError == "<None>"
NoPredictions == <<>>

\* nothing returned yet
NoReturn == [results |-> NoResults, error |-> NoError]

\* line 13
UrlError == [results |-> NoResults, error |-> "Could not generate presigned URL"]

\* line 83
AnalysisError == [results |-> NoResults, error |-> "Analysis error"]

\* an exception of the download leaves the function
AfterRaise_DownloadEscapes(step) ==
    IF step = "download"
    THEN [pc |-> "raised", ret |-> NoReturn]
    ELSE [pc |-> "returned", ret |-> AnalysisError]

\* lines 7 and 82-83: whichever statement of the body raises, the function
\* returns the error pair
AfterRaise(step) == [pc |-> "returned", ret |-> AnalysisError]

RECURSIVE TopIndices(_, _, _)
\* k times the index of a largest value not yet taken
TopIndices(p, k, taken) ==
    IF k = 0 THEN {<<>>}
    ELSE LET rest == (1..Len(p)) \ taken
             best == {i \in rest : \A j \in rest : p[i] >= p[j]}
         IN  UNION {{<<i>> \o s : s \in TopIndices(p, k - 1, taken \cup {i})} :
                       i \in best}

\* line 56: torch.topk(p, k).indices[0], largest first; which of several
\* equal values comes first is left open
topk(p, k) == TopIndices(p, k, {})

\* lines 68-72
Label(m, idx) ==
    IF m.is_huggingface /\ m.id2label
    THEN "id2label_" \o ToString(idx)
    ELSE "Class_" \o ToString(idx)

\* line 74: score.item() * 100
Confidence(score) == score * 100

\* lines 58-78; the keys image, inference_time and device are left out
Results(m, p, top) ==
    [predictions |->
        [i \in 1..Len(top) |->
            [label |-> Label(m, top[i]), confidence |-> Confidence(p[top[i]])]],
     model_type |-> IF m.is_huggingface THEN "Hugging Face" ELSE "Torchvision"]

AnalysisInit ==
    /\ analysis_pc = "idle"
    /\ cv_model = [is_huggingface |-> FALSE, id2label |-> FALSE]
    /\ url_result = <<>>
    /\ predictions = NoPredictions
    /\ raised_at = "none"
    /\ analysis_return = NoReturn

\* line 2: the function is called
AnalyzeCall ==
    /\ analysis_pc = "idle"
    /\ \E m \in CvModels : cv_model' = m
    /\ analysis_pc' = "query"
    /\ UNCHANGED <<url_result, predictions, raised_at, analysis_return>>
    /\ UNCHANGED outsideAnalysis

\* lines 9-15: the presigned-URL query raises, or returns no row, or a row
GetUrl ==
    /\ analysis_pc = "query"
    /\ \/ /\ raised_at' = "query"
          /\ analysis_pc' = AfterRaise("query").pc
          /\ analysis_return' = AfterRaise("query").ret
          /\ UNCHANGED url_result
       \/ \E rows \in UrlResults :
            /\ url_result' = rows
            /\ analysis_pc' = IF rows = <<>> THEN "returned" ELSE "download"
            /\ analysis_return' = IF rows = <<>> THEN UrlError ELSE NoReturn
            /\ UNCHANGED raised_at
    /\ UNCHANGED <<cv_model, predictions>>
    /\ UNCHANGED outsideAnalysis

\* lines 18-19: requests.get and Image.open; a NULL URL, a timeout or bytes
\* that are no image raise
Download ==
    /\ analysis_pc = "download"
    /\ \E ok \in BOOLEAN :
        IF ok /\ url_result[1].URL # "<NULL>"
        THEN /\ analysis_pc' = "preprocess"
             /\ UNCHANGED <<raised_at, analysis_return>>
        ELSE /\ raised_at' = "download"
             /\ analysis_pc' = AfterRaise("download").pc
             /\ analysis_return' = AfterRaise("download").ret
    /\ UNCHANGED <<cv_model, url_result, predictions>>
    /\ UNCHANGED outsideAnalysis

\* lines 22-40: the processor or the transform runs, or raises
Preprocess ==
    /\ analysis_pc = "preprocess"
    /\ \E ok \in BOOLEAN :
        IF ok
        THEN /\ analysis_pc' = "inference"
             /\ UNCHANGED <<raised_at, analysis_return>>
        ELSE /\ raised_at' = "preprocess"
             /\ analysis_pc' = AfterRaise("preprocess").pc
             /\ analysis_return' = AfterRaise("preprocess").ret
    /\ UNCHANGED <<cv_model, url_result, predictions>>
    /\ UNCHANGED outsideAnalysis

\* lines 43-53: the model and the softmax run, or raise
Inference ==
    /\ analysis_pc = "inference"
    /\ \/ /\ raised_at' = "inference"
          /\ analysis_pc' = AfterRaise("inference").pc
          /\ analysis_return' = AfterRaise("inference").ret
          /\ UNCHANGED predictions
       \/ \E p \in SoftmaxOutputs :
            /\ predictions' = p
            /\ analysis_pc' = "topk"
            /\ UNCHANGED <<raised_at, analysis_return>>
    /\ UNCHANGED <<cv_model, url_result>>
    /\ UNCHANGED outsideAnalysis

\* lines 56-80: the five best classes become the results; topk raises when
\* there are fewer than five classes
BuildResults ==
    /\ analysis_pc = "topk"
    /\ IF Len(predictions) < TopCount
       THEN /\ raised_at' = "topk"
            /\ analysis_pc' = AfterRaise("topk").pc
            /\ analysis_return' = AfterRaise("topk").ret
       ELSE /\ \E top \in topk(predictions, TopCount) :
                 analysis_return' =
                     [results |-> Results(cv_model, predictions, top),
                      error |-> NoError]
            /\ analysis_pc' = "returned"
            /\ UNCHANGED raised_at
    /\ UNCHANGED <<cv_model, url_result, predictions>>
    /\ UNCHANGED outsideAnalysis

\* the caller has the pair; the next call starts afresh
AnalysisDone ==
    /\ analysis_pc = "returned"
    /\ analysis_pc' = "idle"
    /\ cv_model' = [is_huggingface |-> FALSE, id2label |-> FALSE]
    /\ url_result' = <<>>
    /\ predictions' = NoPredictions
    /\ raised_at' = "none"
    /\ analysis_return' = NoReturn
    /\ UNCHANGED outsideAnalysis

AnalysisNext ==
    \/ AnalyzeCall
    \/ GetUrl
    \/ Download
    \/ Preprocess
    \/ Inference
    \/ BuildResults
    \/ AnalysisDone

ProcessNext == CallReturns \/ ProcessResponse \/ ProcessDone

Init ==
    /\ FilterInit
    /\ CacheInit
    /\ ChatInit
    /\ ViewerInit
    /\ ProcessInit
    /\ AnalysisInit

AnalysisSpec == Init /\ [][AnalysisNext]_vars

ProcessSpec == Init /\ [][ProcessNext]_vars

FilterSpec == Init /\ [][FilterNext]_vars

\* a run of the assistant page with a turn that carries a statement
QueryNext == LoadData \/ FilterData \/ ShowQueryResult \/ Rerun

QuerySpec == Init /\ [][QueryNext]_vars

CacheSpec == Init /\ [][CacheNext]_vars

ChatSpec == Init /\ [][ChatNext]_vars

\* the answers of a long session: the call raises, or text with a statement
ReplayResponses ==
    {resp \in Responses :
        \/ resp.kind = "exception"
        \/ /\ resp.kind = "http"
           /\ resp.status = 200
           /\ "message" \in DOMAIN resp.body
           /\ resp.body.message.content = <<TextBlock, SqlBlock>>}

ReplayNext ==
    \/ \E q \in sample_questions : SampleClick(q)
    \/ \E text \in sample_questions : SubmitInLongSession(text)
    \/ \E resp \in ReplayResponses : Respond(resp)
    \/ Display

ReplaySpec == Init /\ [][ReplayNext]_vars

ViewerSpec == Init /\ [][ViewerNext]_vars

\* the analyst call is synchronous and bounded by its timeout, and the
\* results section follows in the same run
ChatLiveSpec ==
    /\ ChatSpec
    /\ WF_vars(\E resp \in Responses : Respond(resp))
    /\ WF_vars(Display)

-----------------------------------------------------------------------------
(* Properties of the filter block *)

RECURSIVE IsSubSeq(_, _)
\* s is t with some rows left out
IsSubSeq(s, t) ==
    IF s = <<>> THEN TRUE
    ELSE IF t = <<>> THEN FALSE
    ELSE IF Head(s) = Head(t) THEN IsSubSeq(Tail(s), Tail(t))
    ELSE IsSubSeq(s, Tail(t))

Filtered == run_pc = "filtered"

\* the rows the filter contract asks for, stated on calendar dates
InContract(r, dr, sf, thr) ==
    /\ r.CAPTURE_DATE >= 0
    /\ DateOf(r.CAPTURE_DATE) >= dr.value[1]
    /\ DateOf(r.CAPTURE_DATE) <= dr.value[2]
    /\ r.SENSOR_CATEGORY \in sf
    /\ r.COMBINED_QUALITY_SCORE >= 0
    /\ r.COMBINED_QUALITY_SCORE >= thr

ContractView ==
    SelectSeq(raw_df,
              LAMBDA r : InContract(r, date_range, sensor_filter, quality_threshold))

ScoresOf(df) == [i \in 1..Len(df) |-> df[i].COMBINED_QUALITY_SCORE]

\* C1 as stated: with a valid (start, end) date range the derived view is
\* exactly the rows of the fetched table whose capture date lies in
\* [start, end], whose category is accepted and whose score is >= the
\* threshold.
C1_AsStated ==
    (Filtered /\ ValidDateRange(date_range)) => filtered_df = ContractView

\* C1 amended: the same, whenever evaluating the predicates did not raise;
\* and the rows scored [95, 82, 61] under threshold 80 with pass-through
\* dates and categories (every row dated validly) yield the first two rows.
C1_ValidRangeExact ==
    /\ (Filtered /\ ValidDateRange(date_range) /\ ~filter_error)
            => filtered_df = ContractView
    /\ (/\ Filtered
        /\ ScoresOf(raw_df) = <<95, 82, 61>>
        /\ Len(imagery_df) = 3
        /\ quality_threshold = 80
        /\ date_range = [is_tuple |-> TRUE, value |-> <<min_date, max_date>>]
        /\ sensor_filter = SensorOptions(imagery_df))
            => filtered_df = SubSeq(raw_df, 1, 2)

C1_Witness ==
    /\ Filtered
    /\ ScoresOf(raw_df) = <<95, 82, 61>>
    /\ quality_threshold = 80
    /\ date_range = [is_tuple |-> TRUE, value |-> <<min_date, max_date>>]
    /\ sensor_filter = SensorOptions(imagery_df)
    /\ min_date < max_date
    /\ Len(filtered_df) = 2

\* C2: in every branch the derived view is the fetched table with rows left
\* out: nothing added, duplicated, altered or reordered.
C2_SubSequence ==
    Filtered => IsSubSeq(filtered_df, raw_df)

C2_Witness ==
    /\ Filtered
    /\ Len(raw_df) = 3
    /\ Len(filtered_df) = 2
    /\ filtered_df[1].IMAGE_ID = 1
    /\ filtered_df[2].IMAGE_ID = 3
    /\ ~ValidDateRange(date_range)

\* C3 as stated: an empty accepted-category set always gives an empty view.
C3_AsStated ==
    (Filtered /\ sensor_filter = {}) => filtered_df = <<>>

\* C3 amended: an empty accepted-category set gives an empty view whenever
\* evaluating the predicates did not raise; when it raised, the view is the
\* whole table.
C3_EmptySetEmptyView ==
    /\ (Filtered /\ sensor_filter = {} /\ ~filter_error) => filtered_df = <<>>
    /\ (Filtered /\ sensor_filter = {} /\ filter_error) => filtered_df = imagery_df

C3_Witness ==
    /\ Filtered
    /\ sensor_filter = {}
    /\ ~filter_error
    /\ filtered_df = <<>>
    /\ ValidDateRange(date_range)
    /\ \E i \in 1..Len(imagery_df) :
          RangeMask(imagery_df[i], date_range, Categories, quality_threshold)

\* C4: with a date range that is no pair of dates the block still yields a
\* view, and it is the view the full [min_date, max_date] range yields.
C4_InvalidRangeIsFullRange ==
    (Filtered /\ ~ValidDateRange(date_range)) =>
        filtered_df =
            FilterBlock(imagery_df,
                        [is_tuple |-> TRUE, value |-> <<min_date, max_date>>],
                        sensor_filter, quality_threshold)

C4_Witness ==
    /\ Filtered
    /\ ~ValidDateRange(date_range)
    /\ ~filter_error
    /\ Len(imagery_df) = 3
    /\ Len(filtered_df) = 1
    /\ min_date < max_date

-----------------------------------------------------------------------------
(* Properties of the cached fetchers *)

\* this step is a call of fetcher f
IsCallStep(f) ==
    /\ load_pc \in 1..Len(LoadOrder)
    /\ LoadOrder[load_pc] = f
    /\ <<load_pc, last_call, cache, failed>>' # <<load_pc, last_call, cache, failed>>

\* C5: a call made less than TTL after the call that stored the entry asks
\* the warehouse nothing and returns the stored result; only a call that
\* issues its one query writes an entry.
C5_WithinTtlOneQuery ==
    [][\A f \in Fetchers :
        /\ (IsCallStep(f) /\ cache[f].stored /\ now - cache[f].ts < TTL) =>
              /\ last_call'.queries = 0
              /\ ~last_call'.raised
              /\ last_call'.result = cache[f].result
              /\ cache'[f] = cache[f]
        /\ cache'[f] # cache[f] =>
              /\ IsCallStep(f)
              /\ last_call'.queries = 1
              /\ cache'[f].ts = now]_vars

C5_Witness ==
    /\ last_call.hit
    /\ last_call.fn = "get_operational_summary"
    /\ last_call.result # warehouse
    /\ now - cache[last_call.fn].ts = TTL - 1

\* C6: a call made when the entry's age has reached TTL queries the
\* warehouse again and, when the query returns, stores the new result
\* with the time of this call and returns it.
C6_ExpiredRefetches ==
    [][\A f \in Fetchers :
        (IsCallStep(f) /\ cache[f].stored /\ now - cache[f].ts >= TTL) =>
            /\ last_call'.queries = 1
            /\ ~last_call'.hit
            /\ ~last_call'.raised =>
                  /\ cache'[f] = [stored |-> TRUE, result |-> warehouse, ts |-> now]
                  /\ last_call'.result = warehouse]_vars

\* a refetch at age exactly TTL brought newer data
C6_Witness ==
    /\ last_call.fn = "get_imagery_metadata"
    /\ ~last_call.hit
    /\ ~last_call.raised
    /\ cache[last_call.fn].ts = TTL
    /\ now = TTL
    /\ last_call.result = 1

\* C7: when the query raises, the cache is left as it was, the error ends
\* the run, the query was issued once, and the next call of that fetcher
\* queries the warehouse again.
C7_RaiseWritesNothing ==
    [][\A f \in Fetchers :
        /\ (IsCallStep(f) /\ last_call'.raised) =>
              /\ cache' = cache
              /\ last_call'.queries = 1
              /\ last_call'.result = NoResult
              /\ load_pc' = 1
        /\ (IsCallStep(f) /\ failed[f]) => last_call'.queries = 1]_vars

\* a call of a fetcher that holds a stale entry raised, and its next call
\* then fetched
C7_Witness ==
    /\ last_call.fn = "get_imagery_metadata"
    /\ last_call.raised
    /\ cache[last_call.fn].stored
    /\ failed[last_call.fn]

-----------------------------------------------------------------------------
(* Properties of the assistant conversation *)

RECURSIVE IsPrefix(_, _)
\* s is the beginning of t
IsPrefix(s, t) ==
    IF s = <<>> THEN TRUE
    ELSE IF t = <<>> THEN FALSE
    ELSE Head(s) = Head(t) /\ IsPrefix(Tail(s), Tail(t))

Resolved == {"ANSWERED", "FAILED"}

LastTurn(h) == h[Len(h)]

\* C8: a conversation only moves IDLE -> AWAITING_RESPONSE -> ANSWERED or
\* FAILED -> IDLE; a turn is recorded exactly on leaving AWAITING_RESPONSE,
\* FAILED exactly when it carries an error; a question under way is always
\* resolved and a resolved one always displayed.
C8_ConversationStateMachine ==
    /\ [][/\ conv_state' # conv_state =>
                \/ /\ conv_state = "IDLE"
                   /\ conv_state' = "AWAITING_RESPONSE"
                   /\ strip(pending'.question) # ""
                \/ /\ conv_state = "AWAITING_RESPONSE"
                   /\ conv_state' \in Resolved
                   /\ Len(conversation_history') = Len(conversation_history) + 1
                   /\ LastTurn(conversation_history').question = pending.question
                   /\ (conv_state' = "FAILED") <=>
                         ("error" \in DOMAIN LastTurn(conversation_history').result)
                \/ /\ conv_state \in Resolved
                   /\ conv_state' = "IDLE"
                   /\ Len(shown') > 0
                   /\ shown'[1].question = pending.question
          /\ Len(conversation_history') > Len(conversation_history) =>
                conv_state = "AWAITING_RESPONSE" /\ conv_state' \in Resolved
         ]_vars
    /\ (conv_state = "AWAITING_RESPONSE") ~> (conv_state \in Resolved)
    /\ (conv_state \in Resolved) ~> (conv_state = "IDLE")

\* a second question was asked and failed after a first one was answered
C8_Witness ==
    /\ conv_state = "FAILED"
    /\ Len(conversation_history) = 2
    /\ "error" \notin DOMAIN conversation_history[1].result
    /\ last_response.kind = "exception"

\* C9 as stated: no action ever removes, reorders or modifies an entry of
\* the conversation history.
C9_AsStated ==
    [][IsPrefix(conversation_history, conversation_history')]_vars

\* C9 amended: submitting, clicking a sample question and re-rendering keep
\* every entry in place and add a new turn only at the end, the question
\* just submitted; Clear Chat alone removes entries, all of them.
C9_AppendOnlyUntilCleared ==
    [][/\ conversation_id' = conversation_id =>
            /\ IsPrefix(conversation_history, conversation_history')
            /\ Len(conversation_history') <= Len(conversation_history) + 1
            /\ Len(conversation_history') > Len(conversation_history) =>
                  LastTurn(conversation_history').question = pending.question
       /\ conversation_id' # conversation_id => conversation_history' = <<>>
      ]_vars

\* two turns in the order asked, then a sample question clicked
C9_Witness ==
    /\ conv_state = "IDLE"
    /\ Len(conversation_history) = 2
    /\ conversation_history[1].question = "q2"
    /\ conversation_history[2].question = "q1"
    /\ current_question = "q1"
    /\ conversation_id = 1

\* the analyst call failed: no runtime, an exception (timeout included), a
\* status of 400 or more, or a body without message or with a broken block
CallFailed(resp) ==
    \/ resp.kind \in {"no_runtime", "exception"}
    \/ /\ resp.kind = "http"
       /\ \/ resp.status >= 400
          \/ "message" \notin DOMAIN resp.body
          \/ \E i \in 1..Len(resp.body.message.content) :
                "text" \notin DOMAIN resp.body.message.content[i]
                /\ "statement" \notin DOMAIN resp.body.message.content[i]

\* C10: a failed analyst call still appends its turn, with the question and
\* an error descriptor and nothing else, and the results section shows that
\* turn as one error block carrying the descriptor.
C10_FailedTurnKeptAndShownAsError ==
    /\ [][(conv_state = "AWAITING_RESPONSE" /\ last_response' # last_response
           /\ CallFailed(last_response')) =>
            /\ Len(conversation_history') = Len(conversation_history) + 1
            /\ LastTurn(conversation_history').question = pending.question
            /\ DOMAIN LastTurn(conversation_history').result = {"error"}
            /\ conv_state' = "FAILED"]_vars
    /\ [](conv_state = "IDLE" =>
            \A i \in 1..Len(conversation_history) :
                LET conv == conversation_history[Len(conversation_history) + 1 - i] IN
                "error" \in DOMAIN conv.result =>
                    /\ i <= Len(shown)
                    /\ shown[i].question = conv.question
                    /\ Len(shown[i].blocks) = 1
                    /\ shown[i].blocks[1].kind = "error"
                    /\ shown[i].blocks[1].text = conv.result.error)

\* a failed turn (error status) is on display above an answered one
C10_Witness ==
    /\ conv_state = "IDLE"
    /\ Len(shown) = 2
    /\ Len(shown[1].blocks) = 1
    /\ Len(shown[2].blocks) = 2
    /\ shown[1].blocks[1].kind = "error"
    /\ shown[1].blocks[1].text = "API Error 400: Unknown error"
    /\ shown[2].blocks[1].kind = "answer"

\* C15: a failing warehouse query of the initial load is caught where it
\* happens and does not abort the render: the run goes on with the line
\* after the call.
C15_LoadFailureCaught ==
    [][\A f \in Fetchers :
        (IsCallStep(f) /\ last_call'.raised) => load_pc' = load_pc + 1]_vars

C17_EntryNeverAltered ==
    /\ [](\A f \in Fetchers :
            cache[f].stored => cached_df[f] = TableOf(cache[f].result))
    /\ [][(load_pc = Len(LoadOrder) + 1 /\ load_pc' = load_pc + 1) =>
            /\ loaded_df'.df # loaded_df.df
            /\ cached_df' = cached_df
            /\ cache' = cache]_vars
    /\ [][(IsCallStep(LoadOrder[1]) /\ last_call'.hit) =>
            /\ loaded_df'.df = TableOf(cache[LoadOrder[1]].result)
            /\ loaded_df'.df[1].CAPTURE_DATE = InvalidDate]_vars

\* a run whose three calls were hits on entries stored together by an
\* earlier complete run has coerced and shortened its own table
C17_Witness ==
    /\ load_pc = Len(LoadOrder) + 2
    /\ loaded_df.hit
    /\ last_call.hit
    /\ last_call.fn = LoadOrder[3]
    /\ cache[LoadOrder[1]].ts = cache[LoadOrder[3]].ts
    /\ now > cache[LoadOrder[1]].ts
    /\ Len(loaded_df.df) = 1
    /\ Len(cached_df[LoadOrder[1]]) = 2

\* the image column was drawn for a row that has a storage locator
ImageDrawn ==
    /\ viewer_pc = "done"
    /\ selected_idx > 0
    /\ viewer_df[selected_idx].S3_KEY # NullKey

\* C18: get_s3_presigned_url returns a URL only when the warehouse returned
\* at least one row, and then the URL of the first row; when the query
\* raised or returned no row it returns None, the run goes on, and the page
\* shows the warning for that key and no image.
C18_NoUrlOnFailure ==
    /\ viewer_pc = "selected" => ENABLED DisplayImage
    /\ ImageDrawn =>
        /\ ~presigned_url.none =>
              /\ ~url_outcome.raised
              /\ Len(url_outcome.rows) >= 1
              /\ presigned_url.value = url_outcome.rows[1]
        /\ (url_outcome.raised \/ url_outcome.rows = <<>>) =>
              /\ presigned_url = NoUrl
              /\ image_view =
                    [kind |-> "warning",
                     s3_key |-> viewer_df[selected_idx].S3_KEY]
        /\ url_error = url_outcome.raised
        /\ image_view.kind = "image" =>
              ~presigned_url.none /\ image_view.url = presigned_url.value

\* the query for the second row's key raised: a warning, no image
C18_Witness ==
    /\ ImageDrawn
    /\ selected_idx = 2
    /\ url_outcome.raised
    /\ url_error
    /\ presigned_url.none
    /\ image_view.kind = "warning"

\* C11 as stated, its count: once the call for a submitted question has
\* returned, exactly one request was sent to the analyst API, whatever the
\* outcome.
C11_AsStated ==
    conv_state \in Resolved => requests = 1

\* C11 amended: a submitted question causes one call of the proxy and never
\* more than one request: exactly one when the Snowflake runtime is there,
\* none when it is missing; the count moves only while that question is
\* submitted and answered, so no later render sends a failed call again.
C11_NoRetry ==
    /\ [](requests <= 1)
    /\ [](conv_state \in Resolved =>
            requests = IF last_response.kind = "no_runtime" THEN 0 ELSE 1)
    /\ [][requests' # requests =>
            \/ /\ conv_state = "IDLE"
               /\ conv_state' = "AWAITING_RESPONSE"
               /\ requests' = 0
            \/ /\ conv_state = "AWAITING_RESPONSE"
               /\ conv_state' \in Resolved]_vars
    /\ [][(conv_state = "IDLE" /\ conv_state' = "IDLE") =>
            /\ requests' = requests
            /\ api_conversation_history' = api_conversation_history
               \/ api_conversation_history' = <<>>]_vars

\* a call failed with an error status, its turn was displayed, and a later
\* render (a sample question clicked) left the one request at one
C11_Witness ==
    /\ conv_state = "IDLE"
    /\ requests = 1
    /\ current_question = "q1"
    /\ Len(conversation_history) = 1
    /\ "error" \in DOMAIN conversation_history[1].result
    /\ Len(shown) = 1

\* the statements of the sql blocks on display, top to bottom
ShownStatements ==
    Concat([i \in 1..Len(shown) |->
        LET sql == SelectSeq(shown[i].blocks, LAMBDA b : b.kind = "sql")
        IN  [j \in 1..Len(sql) |-> sql[j].text]])

C13_AnswerOrError ==
    \A i \in 1..Len(conversation_history) :
        ("answer" \in DOMAIN conversation_history[i].result)
            # ("error" \in DOMAIN conversation_history[i].result)

\* C19: call_cortex_analyst returns in every failure case, and what it
\* returns is an error descriptor: the missing runtime, an exception (a
\* timeout included) and a status of 400 or more each yield their own
\* descriptor and nothing else, the turn is recorded with it and the run goes
\* on; an error status leaves the API history as it was.
C19_CallReturnsErrorDescriptor ==
    [][(conv_state = "AWAITING_RESPONSE" /\ last_response' # last_response) =>
        LET resp == last_response'
            result == LastTurn(conversation_history').result
        IN  /\ conv_state' \in Resolved
            /\ Len(conversation_history') = Len(conversation_history) + 1
            /\ resp.kind = "no_runtime" =>
                  result = [error |->
                      "This feature requires running in Snowflake Streamlit environment"]
            /\ resp.kind = "exception" =>
                  result = [error |-> "Error calling Cortex Analyst"]
            /\ (resp.kind = "http" /\ resp.status >= 400) =>
                  /\ result = [error |-> "API Error " \o ToString(resp.status)
                                            \o ": Unknown error"]
                  /\ api_conversation_history' = api_conversation_history
            /\ resp.kind # "http" =>
                  api_conversation_history' = api_conversation_history]_vars

\* a status of 500 came back as its error descriptor
C19_Witness ==
    /\ conv_state = "FAILED"
    /\ last_response.kind = "http"
    /\ last_response.status = 500
    /\ LastTurn(conversation_history).result =
          [error |-> "API Error 500: Unknown error"]
    /\ requests = 1

Min(a, b) == IF a <= b THEN a ELSE b

\* C20: once a render is done the page shows the min(5, n) newest of the n
\* stored turns, the newest on top, each with its own question and outcome;
\* a step that redraws the page leaves the stored history as it was.
C20_WindowBoundsDisplayOnly ==
    /\ [](conv_state = "IDLE" =>
            LET n == Len(conversation_history) IN
            /\ Len(shown) = Min(5, n)
            /\ \A i \in 1..Len(shown) :
                  LET conv == conversation_history[n + 1 - i] IN
                  /\ shown[i].question = conv.question
                  /\ Len(shown[i].blocks) >= 1
                  /\ (shown[i].blocks[1].kind = "error")
                        <=> ("error" \in DOMAIN conv.result))
    /\ [][shown' # shown => conversation_history' = conversation_history]_vars

\* six turns are stored, the oldest a failed "q2", and the five newest are
\* on display
C20_Witness ==
    /\ conv_state = "IDLE"
    /\ Len(conversation_history) = 6
    /\ Len(shown) = 5
    /\ conversation_history[1].question = "q2"
    /\ "error" \in DOMAIN conversation_history[1].result
    /\ \A i \in 1..5 :
          shown[i].question = "q1" /\ shown[i].blocks[1].kind = "answer"

\* the turn's call came back with a status below 400: its result is no error
\* descriptor of call_cortex_analyst
WentThrough(conv) ==
    \/ "error" \notin DOMAIN conv.result
    \/ conv.result.error \in
          {"Invalid response format from Cortex Analyst",
           "Error processing Cortex Analyst response"}

\* the questions of the user messages in a list of messages, in order
UserTexts(messages) ==
    LET users == SelectSeq(messages, LAMBDA m : m.role = "user")
    IN  [i \in 1..Len(users) |-> users[i].content[1].text]

\* C21: while a request is under way its messages are the API history as it
\* stands followed by one user message holding the submitted question; the
\* user questions of that history are the questions of the stored turns whose
\* call went through, in order; and the body names the semantic model under
\* the key semantic_model_file.  The third part fails: a call that raised
\* after line 1398 had appended its question (C25) leaves that question in
\* the history, and the next request sends it.
C21_MessagesAreHistoryThenQuestion ==
    conv_state = "AWAITING_RESPONSE" =>
        LET messages == pending.body.messages
            n == Len(api_conversation_history)
            went == SelectSeq(conversation_history, WentThrough)
        IN  /\ Len(messages) = n + 1
            /\ SubSeq(messages, 1, n) = api_conversation_history
            /\ messages[n + 1] = UserMessage(pending.question)
            /\ UserTexts(api_conversation_history) =
                  [i \in 1..Len(went) |-> went[i].question]
            /\ DOMAIN pending.body = {"messages", "semantic_model_file"}
            /\ pending.body.semantic_model_file = SemanticModelFile

\* C22: when a predicate of the filter block raises, the error is reported
\* and the view is the whole imagery table, every row in its order, whatever
\* dates, sensors and threshold were chosen; no error is reported otherwise.
C22_RaiseFallsBackToWholeTable ==
    Filtered =>
        /\ filter_error <=> ComparisonRaises(imagery_df)
        /\ filter_error =>
              /\ filtered_df = imagery_df
              /\ Len(filtered_df) >= 1

\* a table of three rows, one with a text for a score: no sensor is chosen
\* and the threshold is 95, and still all three rows are in the view
C22_Witness ==
    /\ Filtered
    /\ filter_error
    /\ sensor_filter = {}
    /\ quality_threshold = 95
    /\ Len(imagery_df) = 3
    /\ filtered_df = imagery_df
    /\ \E i \in 1..3 : imagery_df[i].COMBINED_QUALITY_SCORE = 61

\* the IMAGE_IDs of a table
IdsOf(df) == {df[i].IMAGE_ID : i \in 1..Len(df)}

\* C23: with a pair of dates chosen and no error, a row that passes the
\* sensor and score predicates is kept exactly when its capture time lies
\* between midnight of the start date and the last second of the end date,
\* both included: a row at midnight of the start date and a row in the last
\* second of the end date are kept, an earlier or later row is dropped.
C23_DateBoundsInclusive ==
    (Filtered /\ ValidDateRange(date_range) /\ ~filter_error) =>
        \A i \in 1..Len(imagery_df) :
            LET r == imagery_df[i]
                kept == r.IMAGE_ID \in IdsOf(filtered_df)
                first == Timestamp(date_range.value[1])
                last == Timestamp(date_range.value[2] + 1) - 1
            IN  (/\ r.SENSOR_CATEGORY \in sensor_filter
                 /\ ScoreAtLeast(r.COMBINED_QUALITY_SCORE, quality_threshold))
                => /\ (r.CAPTURE_DATE = first /\ first <= last) => kept
                   /\ (r.CAPTURE_DATE = last /\ first <= last) => kept
                   /\ r.CAPTURE_DATE < first => ~kept
                   /\ r.CAPTURE_DATE > last => ~kept
                   /\ kept <=> (first <= r.CAPTURE_DATE /\ r.CAPTURE_DATE <= last)

\* the range is day 0 to day 0: the rows at midnight and in the last second of
\* day 0 are kept, the row at midnight of day 1 is dropped
C23_Witness ==
    /\ Filtered
    /\ ~filter_error
    /\ date_range = [is_tuple |-> TRUE, value |-> <<0, 0>>]
    /\ quality_threshold = 80
    /\ sensor_filter = {"EO"}
    /\ Len(imagery_df) = 3
    /\ imagery_df[1].CAPTURE_DATE = Timestamp(0)
    /\ imagery_df[2].CAPTURE_DATE = Timestamp(1) - 1
    /\ imagery_df[3].CAPTURE_DATE = Timestamp(1)
    /\ IdsOf(filtered_df) = {1, 2}

\* C24: once the table is loaded, it holds the fetched rows whose date could
\* be parsed; every row of the derived view has a capture date, whichever
\* branch of the filter block made the view; and the bounds of the date input
\* are the days of the earliest and latest remaining row, or both today's
\* date when no row remains.
C24_ViewDatesValid ==
    /\ run_pc \in {"filters", "filtered"} =>
          /\ imagery_df =
                SelectSeq([i \in 1..Len(raw_df) |->
                              [raw_df[i] EXCEPT !.CAPTURE_DATE =
                                  IF @ = InvalidDate THEN NaT ELSE @]],
                          LAMBDA r : r.CAPTURE_DATE >= 0)
          /\ IF Len(imagery_df) > 0
             THEN /\ date_today = None
                  /\ \A i \in 1..Len(imagery_df) :
                        /\ min_date <= DateOf(imagery_df[i].CAPTURE_DATE)
                        /\ DateOf(imagery_df[i].CAPTURE_DATE) <= max_date
                  /\ \E i, j \in 1..Len(imagery_df) :
                        /\ min_date = DateOf(imagery_df[i].CAPTURE_DATE)
                        /\ max_date = DateOf(imagery_df[j].CAPTURE_DATE)
             ELSE /\ date_today \in 0..1
                  /\ min_date = date_today
                  /\ max_date = date_today
    /\ Filtered =>
          \A i \in 1..Len(filtered_df) :
              filtered_df[i].CAPTURE_DATE \in ValidDates

\* a table whose first row has a date that cannot be parsed and whose third
\* row has a text for a score: the view is the fallback and holds the two
\* dated rows
C24_Witness ==
    /\ Filtered
    /\ filter_error
    /\ Len(raw_df) = 3
    /\ raw_df[1].CAPTURE_DATE = InvalidDate
    /\ IdsOf(filtered_df) = {2, 3}
    /\ min_date = 0
    /\ max_date = 0

\* C25: a call of call_cortex_analyst that returns an error descriptor (an
\* error status, an exception, a timeout) leaves the API conversation history
\* as it was.
C25_FailedCallLeavesApiHistory ==
    [][(conv_state = "AWAITING_RESPONSE" /\ last_response' # last_response
        /\ "error" \in DOMAIN CallResult(last_response'))
       => api_conversation_history' = api_conversation_history]_vars

\* C26: the API conversation history always has even length and alternates
\* user message, analyst message, starting with a user message.
C26_ApiHistoryAlternates ==
    LET n == Len(api_conversation_history) IN
    /\ n % 2 = 0
    /\ \A i \in 1..n :
          api_conversation_history[i].role =
              IF i % 2 = 1 THEN "user" ELSE "analyst"

\* C27: the step that gives the conversation a new id, or empties a history
\* that held turns, is Clear Chat: after it the display history and the API
\* history are empty, the id differs from the one before, the pending
\* question is the empty text and nothing is on display; and a request sent
\* while no turn is stored carries one message, the question submitted.
C27_ClearChatStartsAfresh ==
    /\ [][(\/ conversation_id' # conversation_id
           \/ conversation_history # <<>> /\ conversation_history' = <<>>)
          => /\ conversation_history' = <<>>
             /\ api_conversation_history' = <<>>
             /\ conversation_id' # conversation_id
             /\ current_question' = ""
             /\ shown' = <<>>
             /\ conv_state' = "IDLE"]_vars
    /\ []((conv_state = "AWAITING_RESPONSE" /\ conversation_history = <<>>)
            => pending.body.messages = <<UserMessage(pending.question)>>)

\* "q2" is asked right after Clear Chat
C27_Witness ==
    /\ conv_state = "AWAITING_RESPONSE"
    /\ conversation_id = 1
    /\ current_question = ""
    /\ conversation_history = <<>>
    /\ api_conversation_history = <<>>
    /\ pending.question = "q2"
    /\ Len(pending.body.messages) = 1

\* a text that is empty or only white space
Blank(t) == t \in {"", "  "}

\* C28: a run in which Analyze is pressed on a blank text makes no request
\* and leaves the display history and the API history as they were; a turn
\* is appended, and a request made, only for a text that is not blank.
C28_BlankSubmitDoesNothing ==
    /\ [][(conv_state = "IDLE" /\ Blank(stripped_question')) =>
            /\ conv_state' = "IDLE"
            /\ conversation_history' = conversation_history
            /\ api_conversation_history' = api_conversation_history
            /\ requests' = requests]_vars
    /\ [][Len(conversation_history') > Len(conversation_history) =>
            /\ stripped_question # Absent
            /\ ~Blank(stripped_question)
            /\ ~Blank(LastTurn(conversation_history').question)]_vars
    /\ [](conv_state # "IDLE" =>
            stripped_question # Absent /\ ~Blank(stripped_question))

\* after an answered "q1", Analyze was pressed on a blank text: the one
\* turn, its two API messages and the one request are all there is
C28_Witness ==
    /\ conv_state = "IDLE"
    /\ stripped_question = ""
    /\ Len(conversation_history) = 1
    /\ conversation_history[1].question = "q1"
    /\ Len(api_conversation_history) = 2
    /\ requests = 1

-----------------------------------------------------------------------------
(* Properties of process_cortex_response *)

RECURSIVE LoopTexts(_, _)
\* the texts of the text blocks among the first n blocks, as the loop meets them
LoopTexts(c, n) ==
    IF n = 0 THEN <<>>
    ELSE IF c[n].type = "text"
         THEN Append(LoopTexts(c, n - 1), c[n].text)
         ELSE LoopTexts(c, n - 1)

RECURSIVE LoopSuggestions(_, _)
\* the suggestions of the suggestions blocks among the first n blocks
LoopSuggestions(c, n) ==
    IF n = 0 THEN <<>>
    ELSE IF c[n].type = "suggestions"
         THEN LoopSuggestions(c, n - 1) \o c[n].suggestions
         ELSE LoopSuggestions(c, n - 1)

\* the positions of the sql blocks
SqlPositions(c) == {i \in 1..Len(c) : c[i].type = "sql"}

RECURSIVE JoinLeft(_, _)
\* the first n parts with a newline between neighbours
JoinLeft(parts, n) ==
    IF n = 1 THEN parts[1] ELSE JoinLeft(parts, n - 1) \o "\n" \o parts[n]

\* C29: for a response that carries a message whose blocks are all well
\* formed, the result is no error and holds: answer, the texts of the text
\* blocks in their order joined by newlines, iff there is a text block;
\* suggestions, the lists of the suggestions blocks one after another in
\* their order, iff there is any; sql, the statement of the last sql block,
\* iff that statement is not empty; request_id iff the response has one, and
\* the same; nothing else, so blocks of other types leave no trace.
C29_BlocksExtractedInOrder ==
    (/\ process_pc = "processed"
     /\ "message" \in DOMAIN call_result
     /\ \A i \in 1..Len(call_result.message.content) :
           call_result.message.content[i] # BrokenBlock)
    => LET c == call_result.message.content
           texts == LoopTexts(c, Len(c))
           suggestions == LoopSuggestions(c, Len(c))
           r == turn_result
       IN  /\ DOMAIN r \subseteq {"answer", "sql", "suggestions", "request_id"}
           /\ ("answer" \in DOMAIN r) <=> (texts # <<>>)
           /\ ("answer" \in DOMAIN r) => r.answer = JoinLeft(texts, Len(texts))
           /\ ("suggestions" \in DOMAIN r) <=> (suggestions # <<>>)
           /\ ("suggestions" \in DOMAIN r) => r.suggestions = suggestions
           /\ ("sql" \in DOMAIN r) <=>
                 /\ SqlPositions(c) # {}
                 /\ c[SetMax(SqlPositions(c))].statement # ""
           /\ ("sql" \in DOMAIN r) => r.sql = c[SetMax(SqlPositions(c))].statement
           /\ ("request_id" \in DOMAIN r) <=> ("request_id" \in DOMAIN call_result)
           /\ ("request_id" \in DOMAIN r) => r.request_id = call_result.request_id

\* text "a2", statement "SELECT 2", text "a1", statement "SELECT 1": the
\* answer is the two texts in that order and the statement is the last one
C29_Witness ==
    /\ process_pc = "processed"
    /\ call_result =
          [message |->
              [role |-> "analyst",
               content |-> <<[type |-> "text", text |-> "a2"],
                             [type |-> "sql", statement |-> "SELECT 2"],
                             TextBlock, SqlBlock>>],
           request_id |-> "r1"]
    /\ turn_result =
          [answer |-> "a2\na1", sql |-> "SELECT 1", request_id |-> "r1"]

-----------------------------------------------------------------------------
(* Properties of analyze_satellite_image *)

\* C30: the function never lets an exception out, and once it has returned
\* the pair holds results or an error message, never both and never
\* neither: an empty URL result gives the message "Could not generate
\* presigned URL", an exception of any step gives "Analysis error", and
\* otherwise the results hold five predictions, the confidence never rising
\* from one to the next, the first being the largest probability times 100
\* and no class left out having more than the last.
C30_ReturnsResultsOrError ==
    /\ analysis_pc # "raised"
    /\ analysis_pc # "returned" => analysis_return = NoReturn
    /\ analysis_pc = "returned" =>
          LET ret == analysis_return IN
          /\ (ret.results = NoResults) # (ret.error = NoError)
          /\ raised_at # "none" =>
                ret = [results |-> NoResults, error |-> "Analysis error"]
          /\ (raised_at = "none" /\ url_result = <<>>) =>
                ret = [results |-> NoResults,
                       error |-> "Could not generate presigned URL"]
          /\ (raised_at = "none" /\ url_result # <<>>) =>
                /\ ret.error = NoError
                /\ ret.results # NoResults
                /\ Len(ret.results.predictions) = 5
                /\ \A i \in 1..4 :
                      ret.results.predictions[i].confidence >=
                          ret.results.predictions[i + 1].confidence
                /\ \A j \in 1..Len(predictions) :
                      predictions[j] * 100 <= ret.results.predictions[1].confidence
                /\ Cardinality({j \in 1..Len(predictions) :
                        predictions[j] * 100 > ret.results.predictions[5].confidence})
                      <= 4

\* six classes with the probabilities 3, 1, 6, 2, 5, 4 (hundredths): classes
\* 3, 5, 6, 1 and 4 are returned in that order
C30_Witness ==
    /\ analysis_pc = "returned"
    /\ predictions = <<3, 1, 6, 2, 5, 4>>
    /\ cv_model.is_huggingface
    /\ cv_model.id2label
    /\ analysis_return.error = NoError
    /\ analysis_return.results.model_type = "Hugging Face"
    /\ analysis_return.results.predictions =
          <<[label |-> "id2label_3", confidence |-> 600],
            [label |-> "id2label_5", confidence |-> 500],
            [label |-> "id2label_6", confidence |-> 400],
            [label |-> "id2label_1", confidence |-> 300],
            [label |-> "id2label_4", confidence |-> 200]>>

====
